---- MODULE Spec2Model ----
(***************************************************************************)
(* A model of the ShashwathaPoojaApp date-resolution engine                *)
(* (src/calculations.py) and of the row loop that dispatches to it         *)
(* (src/app.py).                                                           *)
(*                                                                         *)
(* Three specifications share the variables below:                         *)
(*   Spec         the batch row loop of app.py (fill-down + dispatch);     *)
(*   SpecWeekday  one call of get_english_date / calculate_nth_weekday,    *)
(*                stepped one loop iteration at a time;                    *)
(*   SpecSearch   one call of an astronomical search of calculations.py,   *)
(*                stepped one loop iteration at a time, the ephemeris      *)
(*                being an oracle that answers each sampled day.           *)
(***************************************************************************)
EXTENDS Integers, Sequences, FiniteSets, TLC

VARIABLES
    PLANETS,            \* TRUE: the ephemeris loaded; FALSE: PLANETS = None
    FESTIVALS_CACHE,    \* the module global _FESTIVALS_CACHE
    store,              \* state of festivals/festivals.json on disk
    storeReads,         \* how many times the store was opened and parsed
    target_year,        \* the sidebar's year
    rows,               \* the input rows read so far, in order
    last_seen_month,    \* the fill-down memory of the row loop
    results,            \* the output rows appended so far
    pc,                 \* position of the row loop
    fault,              \* the function that raised, "" when none did
    frame               \* the call frame of the function under SpecWeekday/SpecSearch

vars == <<PLANETS, FESTIVALS_CACHE, store, storeReads, target_year, rows,
          last_seen_month, results, pc, fault, frame>>

----------------------------------------------------------------------------
(* Bounds of the model and constants of the program.                        *)

MinYear == 2024
MaxYear == 2030
MaxRows == 3
YearSpan == 1

Years == MinYear..MaxYear
SearchYears == MinYear..(MinYear + YearSpan)

----------------------------------------------------------------------------
(* Values returned by the functions of calculations.py.  A result is None,  *)
(* a sentinel string, a formatted date, or the raising of an exception.     *)

NoneVal == [k |-> "None", d |-> 0, m |-> 0, y |-> 0]

Sentinel(s) == [k |-> s, d |-> 0, m |-> 0, y |-> 0]

Raised == Sentinel("FAULT")

\* d.strftime("%d-%m-%Y"): the three fields of the date, day first.
strftime(y, m, d) == [k |-> "date", d |-> d, m |-> m, y |-> y]

IsDate(r) == r.k = "date"

\* Python truthiness of a returned value: None is falsy, any non-empty string truthy.
Truthy(r) == r.k # "None"

\* needle in res, for the two needles app.py looks for.
StrContains(r, needle) ==
    CASE needle = "Not Found" -> r.k = "Not Found"
      [] needle = "Check"     -> r.k = "Check Manual"
      [] OTHER                -> FALSE

----------------------------------------------------------------------------
(* datetime.date: the proleptic Gregorian calendar.                         *)

IsLeap(y) == (y % 4 = 0 /\ y % 100 # 0) \/ y % 400 = 0

DaysInMonth(y, m) ==
    CASE m \in {1, 3, 5, 7, 8, 10, 12} -> 31
      [] m \in {4, 6, 9, 11}           -> 30
      [] OTHER                         -> IF IsLeap(y) THEN 29 ELSE 28

\* datetime.date(y, m, d) raises ValueError unless this holds.
ValidDate(y, m, d) == m \in 1..12 /\ d >= 1 /\ d <= DaysInMonth(y, m)

DaysBeforeYear(y) ==
    365 * (y - 1) + ((y - 1) \div 4) - ((y - 1) \div 100) + ((y - 1) \div 400)

RECURSIVE DaysBeforeMonth(_, _)
DaysBeforeMonth(y, m) ==
    IF m <= 1 THEN 0 ELSE DaysBeforeMonth(y, m - 1) + DaysInMonth(y, m - 1)

\* date.toordinal()
ToOrdinal(y, m, d) == DaysBeforeYear(y) + DaysBeforeMonth(y, m) + d

\* date.weekday(): Monday is 0.
Weekday(y, m, d) == (ToOrdinal(y, m, d) + 6) % 7

\* date.fromordinal(n).year, .month, .day
OrdYear(n) ==
    CHOOSE y \in (MinYear - 1)..(MaxYear + 2) :
        DaysBeforeYear(y) < n /\ n <= DaysBeforeYear(y + 1)

OrdMonth(n) ==
    LET y == OrdYear(n)
        r == n - DaysBeforeYear(y)
    IN  CHOOSE m \in 1..12 :
            DaysBeforeMonth(y, m) < r /\ r <= DaysBeforeMonth(y, m) + DaysInMonth(y, m)

OrdDay(n) ==
    LET y == OrdYear(n)
    IN  n - DaysBeforeYear(y) - DaysBeforeMonth(y, OrdMonth(n))

OrdFormat(n) == strftime(OrdYear(n), OrdMonth(n), OrdDay(n))

\* date.fromordinal(n).year == y
InYear(n, y) == DaysBeforeYear(y) < n /\ n <= DaysBeforeYear(y + 1)

----------------------------------------------------------------------------
(* Text.  A str is a sequence of symbols: a digit, "-", ".", " ", or the    *)
(* letters of a word.  Most words are one symbol; a word that is a prefix   *)
(* of another is spelled out (March: "Marc" and the final virama "Vir").    *)

Digits == {"0", "1", "2", "3", "4", "5", "6", "7", "8", "9"}

DigitVal(c) ==
    CASE c = "0" -> 0 [] c = "1" -> 1 [] c = "2" -> 2 [] c = "3" -> 3
      [] c = "4" -> 4 [] c = "5" -> 5 [] c = "6" -> 6 [] c = "7" -> 7
      [] c = "8" -> 8 [] c = "9" -> 9

IsSpace(c) == c = " "

\* str.strip()
RECURSIVE LStrip(_)
LStrip(s) == IF s # <<>> /\ IsSpace(Head(s)) THEN LStrip(Tail(s)) ELSE s

RECURSIVE RStrip(_)
RStrip(s) ==
    IF s # <<>> /\ IsSpace(s[Len(s)]) THEN RStrip(SubSeq(s, 1, Len(s) - 1)) ELSE s

Strip(s) == RStrip(LStrip(s))

\* k in s, for strings k and s
IsSubstr(k, s) ==
    \E i \in 1..(Len(s) - Len(k) + 1) : SubSeq(s, i, i + Len(k) - 1) = k

\* s.replace(a, " ") for a one-symbol a
ReplaceBySpace(s, a) == [i \in 1..Len(s) |-> IF s[i] = a THEN " " ELSE s[i]]

\* s.split(sep) for a one-symbol sep: empty parts are kept.
RECURSIVE SplitOn(_, _)
SplitOn(s, sep) ==
    IF \A i \in 1..Len(s) : s[i] # sep
    THEN <<s>>
    ELSE LET i == CHOOSE j \in 1..Len(s) :
                      s[j] = sep /\ \A h \in 1..(j - 1) : s[h] # sep
         IN  <<SubSeq(s, 1, i - 1)>> \o SplitOn(SubSeq(s, i + 1, Len(s)), sep)

\* s.split(): runs of whitespace separate the words, none of them empty.
RECURSIVE Words(_)
Words(s) ==
    LET t == LStrip(s)
    IN  IF t = <<>>
        THEN <<>>
        ELSE IF \A i \in 1..Len(t) : ~IsSpace(t[i])
        THEN <<t>>
        ELSE LET i == CHOOSE j \in 1..Len(t) :
                          IsSpace(t[j]) /\ \A h \in 1..(j - 1) : ~IsSpace(t[h])
             IN  <<SubSeq(t, 1, i - 1)>> \o Words(SubSeq(t, i + 1, Len(t)))

\* s.isdigit()
IsDigitStr(s) == s # <<>> /\ \A i \in 1..Len(s) : s[i] \in Digits

\* int(s) for a string of digits
RECURSIVE IntOf(_)
IntOf(s) ==
    IF s = <<>> THEN 0 ELSE 10 * IntOf(SubSeq(s, 1, Len(s) - 1)) + DigitVal(s[Len(s)])

\* re.findall(r'\d+', s)[0] / re.search(r'\d+', s).group(): the first maximal
\* run of digits, <<>> when s holds no digit.
FirstDigits(s) ==
    IF \A i \in 1..Len(s) : s[i] \notin Digits
    THEN <<>>
    ELSE LET a == CHOOSE j \in 1..Len(s) :
                      s[j] \in Digits /\ \A h \in 1..(j - 1) : s[h] \notin Digits
             b == CHOOSE j \in a..Len(s) :
                      /\ \A h \in a..j : s[h] \in Digits
                      /\ (j = Len(s) \/ s[j + 1] \notin Digits)
         IN  SubSeq(s, a, b)

\* str(n) for n >= 0
RECURSIVE StrOf(_)
StrOf(n) ==
    LET c == CHOOSE x \in Digits : DigitVal(x) = n % 10
    IN  IF n < 10 THEN <<c>> ELSE StrOf(n \div 10) \o <<c>>

----------------------------------------------------------------------------
(* The vocabularies.  A dict is the sequence of its items in insertion      *)
(* order, as the loops over it see them.                                    *)

Item(key, val) == [key |-> key, val |-> val]

\* key in dict
HasKey(dict, w) == \E i \in 1..Len(dict) : dict[i].key = w

\* dict[key]
Get(dict, w) == dict[CHOOSE i \in 1..Len(dict) : dict[i].key = w].val

\* for k, v in dict.items(): if k in s: found = v; break      (0 stands for None)
FirstIn(dict, s) ==
    IF \E i \in 1..Len(dict) : IsSubstr(dict[i].key, s)
    THEN LET i == CHOOSE j \in 1..Len(dict) :
                      /\ IsSubstr(dict[j].key, s)
                      /\ \A h \in 1..(j - 1) : ~IsSubstr(dict[h].key, s)
         IN  dict[i]
    ELSE Item(<<>>, 0)

\* for p in parts: if p in dict: found = dict[p]       (the last match wins)
RECURSIVE LastWord(_, _, _)
LastWord(dict, parts, found) ==
    IF parts = <<>> THEN found
    ELSE LastWord(dict, Tail(parts),
                  IF HasKey(dict, Head(parts)) THEN Get(dict, Head(parts)) ELSE found)

\* The second spelling of July repeats the first key and adds no item.
KANNADA_MONTHS == <<
    Item(<<"January">>, 1), Item(<<"February">>, 2), Item(<<"Marc", "Vir">>, 3),
    Item(<<"April">>, 4), Item(<<"May">>, 5), Item(<<"June">>, 6),
    Item(<<"July">>, 7), Item(<<"August">>, 8), Item(<<"September">>, 9),
    Item(<<"October">>, 10), Item(<<"November">>, 11), Item(<<"December">>, 12),
    Item(<<"Marc">>, 3), Item(<<"Epril">>, 4), Item(<<"Agostu">>, 8),
    Item(<<"Oktobar">>, 10), Item(<<"Septambar">>, 9) >>

LUNAR_MONTHS == <<
    Item(<<"Chaitra">>, 1), Item(<<"Vaishakha">>, 2), Item(<<"Jyeshtha">>, 3),
    Item(<<"Ashadha">>, 4), Item(<<"Shravana">>, 5), Item(<<"Bhadrapada">>, 6),
    Item(<<"Ashwina">>, 7), Item(<<"Kartika">>, 8), Item(<<"Margashira">>, 9),
    Item(<<"Pushya">>, 10), Item(<<"Magha">>, 11), Item(<<"Phalguna">>, 12) >>

SOLAR_MONTHS == <<
    Item(<<"Mesha">>, 1), Item(<<"Vrishabha">>, 2), Item(<<"Mithuna">>, 3),
    Item(<<"Karka">>, 4), Item(<<"Simha">>, 5), Item(<<"Kanya">>, 6),
    Item(<<"Tula">>, 7), Item(<<"Vrishchika">>, 8), Item(<<"Dhanu">>, 9),
    Item(<<"Makara">>, 10), Item(<<"Kumbha">>, 11), Item(<<"Meena">>, 12) >>

PAKSHA == <<
    Item(<<"Shukla">>, "Shukla"), Item(<<"Shuddha">>, "Shukla"),
    Item(<<"Krishna">>, "Krishna"), Item(<<"Bahula">>, "Krishna") >>

TITHIS == <<
    Item(<<"Pratipada">>, 1), Item(<<"Dwitiya">>, 2), Item(<<"Tritiya">>, 3),
    Item(<<"Chaturthi">>, 4), Item(<<"Panchami">>, 5), Item(<<"Shashti">>, 6),
    Item(<<"Saptami">>, 7), Item(<<"Ashtami">>, 8), Item(<<"Navami">>, 9),
    Item(<<"Dashami">>, 10), Item(<<"Ekadashi">>, 11), Item(<<"Dwadashi">>, 12),
    Item(<<"Trayodashi">>, 13), Item(<<"Chaturdashi">>, 14),
    Item(<<"Purnima">>, 15), Item(<<"Amavasya">>, 30) >>

NAKSHATRAS == <<
    Item(<<"Ashwini">>, 1), Item(<<"Bharani">>, 2), Item(<<"Krittika">>, 3),
    Item(<<"Rohini">>, 4), Item(<<"Mrigashira">>, 5), Item(<<"Ardra">>, 6),
    Item(<<"Punarvasu">>, 7), Item(<<"Pushyami">>, 8), Item(<<"Ashlesha">>, 9),
    Item(<<"Makha">>, 10), Item(<<"Pubba">>, 11), Item(<<"Uttara">>, 12),
    Item(<<"Hasta">>, 13), Item(<<"Chitra">>, 14), Item(<<"Swati">>, 15),
    Item(<<"Vishakha">>, 16), Item(<<"Anuradha">>, 17), Item(<<"Jyeshta">>, 18),
    Item(<<"Moola">>, 19), Item(<<"Purvashadha">>, 20), Item(<<"Uttarashadha">>, 21),
    Item(<<"Shravanam">>, 22), Item(<<"Dhanishtha">>, 23), Item(<<"Shatabhisha">>, 24),
    Item(<<"Purvabhadra">>, 25), Item(<<"Uttarabhadra">>, 26), Item(<<"Revati">>, 27) >>

WEEKDAYS == <<
    Item(<<"Monday">>, 0), Item(<<"Tuesday">>, 1), Item(<<"Wednesday">>, 2),
    Item(<<"Thursday">>, 3), Item(<<"Friday">>, 4), Item(<<"Saturday">>, 5),
    Item(<<"Sunday">>, 6) >>

ORDINALS == <<
    Item(<<"First">>, 1), Item(<<"Second">>, 2), Item(<<"Third">>, 3),
    Item(<<"Fourth">>, 4), Item(<<"Fifth">>, 5), Item(<<"Last">>, -1) >>

----------------------------------------------------------------------------
(* Call frames.  A frame holds one call of a function of calculations.py    *)
(* whose loop is stepped one iteration at a time: the arguments, the loop   *)
(* variable cur, the number i of iterations begun, and the returned value.  *)
(* seenAll and seenInYear record what the ephemeris answered on the days    *)
(* of the window so far: the first offset at which the search condition     *)
(* held on any day, and on a day of the requested year (-1: none yet).      *)

WeekdayScanDays == 31
LunarWindow == 80
SolarSpanWindow == 50
LunarStarWindow == 60
SolarDayWindow == 45
CivilScanDays == 31

NewFrame(fn, text, year, month, target, n, mode, cur) ==
    [fn |-> fn, text |-> text, year |-> year, month |-> month, target |-> target,
     n |-> n, mode |-> mode, cur |-> cur, start |-> cur, i |-> 0, count |-> 0,
     seenAll |-> -1, seenInYear |-> -1, res |-> NoneVal, pc |-> "loop"]

IdleFrame == [NewFrame("idle", <<>>, 0, 0, 0, 0, "", 0) EXCEPT !.pc = "idle"]

Return(f, r) == [f EXCEPT !.res = r, !.pc = "done"]

----------------------------------------------------------------------------
(* calculate_nth_weekday                                                    *)

\* Variant: the step back by one day is left out.
LastDayOfMonth_noback(year, month) ==
    IF month < 12
    THEN OrdDay(ToOrdinal(year, month + 1, 1))
    ELSE 31

\* (datetime.date(year, month + 1, 1) - timedelta(days=1)).day if month < 12 else 31
LastDayOfMonth(year, month) ==
    IF month < 12
    THEN OrdDay(ToOrdinal(year, month + 1, 1) - 1)
    ELSE 31

\* The state on entry: the n > 0 branch counts up from day 1, the other one
\* down from the last day of the month.
NthWeekdayEnter(year, month, target_weekday_idx, n) ==
    NewFrame("nth_weekday", <<>>, year, month, target_weekday_idx, n, "",
             IF n > 0 THEN 1 ELSE LastDayOfMonth(year, month))

\* One iteration of the loop the call is in.
NthWeekdayStep(f) ==
    LET g == [f EXCEPT !.i = f.i + 1]
        day == f.cur
    IN  IF f.n > 0
        THEN IF ~ValidDate(f.year, f.month, day)
             THEN Return(g, NoneVal)                       \* except: break
             ELSE IF Weekday(f.year, f.month, day) = f.target
             THEN IF f.count + 1 = f.n
                  THEN Return(g, strftime(f.year, f.month, day))
                  ELSE IF day = WeekdayScanDays
                       THEN Return([g EXCEPT !.count = f.count + 1], NoneVal)
                       ELSE [g EXCEPT !.count = f.count + 1, !.cur = day + 1]
             ELSE IF day = WeekdayScanDays
                  THEN Return(g, NoneVal)
                  ELSE [g EXCEPT !.cur = day + 1]
        ELSE IF ~ValidDate(f.year, f.month, day)
             THEN Return(g, Raised)                        \* ValueError, not caught
             ELSE IF Weekday(f.year, f.month, day) = f.target
             THEN Return(g, strftime(f.year, f.month, day))
             ELSE IF day = 1
                  THEN Return(g, NoneVal)
                  ELSE [g EXCEPT !.cur = day - 1]

RECURSIVE RunNthWeekday(_)
RunNthWeekday(f) == IF f.pc = "done" THEN f ELSE RunNthWeekday(NthWeekdayStep(f))

calculate_nth_weekday(year, month, target_weekday_idx, n) ==
    RunNthWeekday(NthWeekdayEnter(year, month, target_weekday_idx, n)).res

----------------------------------------------------------------------------
(* get_english_date.  The function reads no module global; planets is the   *)
(* global PLANETS as the call would see it, were it to look.                *)

\* The "Standard Month-Day" branch: the date, or None when the branch falls
\* through (not two parts, unknown month, or the try block raised).
MonthDayBranch(date_str, year) ==
    LET parts == SplitOn(date_str, "-")
        m == Strip(parts[1])
        d == Strip(parts[2])
        digits == FirstDigits(d)
    IN  IF /\ IsSubstr(<<"-">>, date_str)
           /\ Len(parts) = 2
           /\ HasKey(KANNADA_MONTHS, m)
           /\ digits # <<>>
           /\ ValidDate(year, Get(KANNADA_MONTHS, m), IntOf(digits))
        THEN strftime(year, Get(KANNADA_MONTHS, m), IntOf(digits))
        ELSE NoneVal

\* The "Pattern Logic" branch.
PatternBranch(date_str, year) ==
    LET wd == FirstIn(WEEKDAYS, date_str)
        found_month == FirstIn(KANNADA_MONTHS, date_str).val
        ord == FirstIn(ORDINALS, date_str)
        found_ord == IF ord.key = <<>> THEN 1 ELSE ord.val
    IN  IF wd.key # <<>> /\ found_month # 0
        THEN calculate_nth_weekday(year, found_month, wd.val, found_ord)
        ELSE NoneVal

\* Variant: the function is given the guard the searches have.
english_date_guarded(planets, text, year) ==
    IF ~planets
    THEN Sentinel("Error")
    ELSE LET date_str == Strip(text)
             md == MonthDayBranch(date_str, year)
         IN  IF IsDate(md) THEN md ELSE PatternBranch(date_str, year)

english_date_under(planets, text, year) ==
    LET date_str == Strip(text)
        md == MonthDayBranch(date_str, year)
    IN  IF IsDate(md) THEN md ELSE PatternBranch(date_str, year)

get_english_date(date_str, year) == english_date_under(PLANETS, date_str, year)

----------------------------------------------------------------------------
(* The ephemeris.  Longitudes are in tenths of a degree, 0..3599.  What the *)
(* ephemeris answers for a day is a record sky: the apparent longitude of   *)
(* the Sun and of the Moon at the sampling instant, and the longitude of    *)
(* the Sun at the new moon that get_lunar_month_from_new_moon backtracks to.*)

AYANAMSA == 241

\* get_astronomy_at reads ts and LOCATION, which are unbound when the setup
\* block failed: the call raises NameError.
AstronomyAvailable == PLANETS

get_sidereal_sun_longitude(s_lon) == (s_lon - AYANAMSA) % 3600

\* int(s_deg / 30) + 1
SolarIndex(s_lon) == (get_sidereal_sun_longitude(s_lon) \div 300) + 1

\* angle = (m_lon - s_lon) % 360; int(angle / 12) + 1
TithiOf(m_lon, s_lon) == (((m_lon - s_lon) % 3600) \div 120) + 1

\* int(((m_lon - AYANAMSA) % 360) / (360 / 27)) + 1
StarOf(m_lon) == ((((m_lon - AYANAMSA) % 3600) * 27) \div 3600) + 1

get_lunar_month_from_new_moon(sky) ==
    LET zodiac_index == get_sidereal_sun_longitude(sky.nm_s_lon) \div 300
        lunar_month == (zodiac_index + 2) % 12
    IN  IF lunar_month = 0 THEN 12 ELSE lunar_month

\* The answers the model lets the ephemeris give: the Sun in four signs,
\* the Moon at four elongations from it.
\* The sky with the Sun in the middle of sidereal sign z (0 = Aries), the Moon
\* in the middle of tithi t, and the Sun in the middle of sign nz at the new moon.
SkyAt(z, t, nz) ==
    [s_lon |-> ((z * 300) + 150 + AYANAMSA) % 3600,
     m_lon |-> ((z * 300) + 150 + AYANAMSA + ((t - 1) * 120) + 60) % 3600,
     nm_s_lon |-> ((nz * 300) + 150 + AYANAMSA) % 3600]

Sky == { SkyAt(z, t, nz) : z \in {3, 4, 8, 9}, t \in {5, 13, 20, 30}, nz \in {3, 4, 9} }

\* greg_map.get(month, 3)
greg_map(month) ==
    CASE month \in 1..10 -> month + 2
      [] month = 11      -> 1
      [] month = 12      -> 2
      [] OTHER           -> 3

\* start_greg = idx + 3; if start_greg > 12: start_greg -= 12
start_greg(idx) == IF idx + 3 > 12 THEN idx + 3 - 12 ELSE idx + 3

----------------------------------------------------------------------------
(* Entry of each search: the frame when its loop is about to start.         *)

calculate_accurate_lunar_date_enter(target_month_idx, paksha_str, tithi_val, year, check_time) ==
    NewFrame("lunar_tithi", <<>>, year, target_month_idx,
             IF paksha_str = "Krishna" THEN tithi_val + 15 ELSE tithi_val,
             0, check_time,
             ToOrdinal(year, greg_map(target_month_idx), 1) - 15)

calculate_solar_span_event_enter(year, solar_month_idx, event_type, target_val) ==
    NewFrame("solar_span", <<>>, year, solar_month_idx, target_val, 0, event_type,
             ToOrdinal(year, start_greg(solar_month_idx), 1) - 20)

lunar_month_star_enter(f_l_month, f_star, year) ==
    NewFrame("lunar_star", <<>>, year, f_l_month, f_star, 0, "",
             ToOrdinal(year, greg_map(f_l_month), 1) - 20)

solar_day_enter(f_month, day_num, year) ==
    NewFrame("solar_day", <<>>, year, f_month, 0, day_num, "",
             ToOrdinal(year, start_greg(f_month), 1) - 20)

gregorian_month_star_enter(g_month, f_star, year) ==
    NewFrame("greg_star", <<>>, year, g_month, f_star, 0, "", 1)

gregorian_month_tithi_enter(g_month, target_tithi, year) ==
    NewFrame("greg_tithi", <<>>, year, g_month, target_tithi, 0, "", 1)

----------------------------------------------------------------------------
(* One iteration of each search loop, given what the ephemeris answers for  *)
(* the day the iteration is at.                                             *)

\* The condition the search tests on a day, as the world has it.
Matches(f, sky) ==
    CASE f.fn = "lunar_tithi" ->
            /\ TithiOf(sky.m_lon, sky.s_lon) = f.target
            /\ get_lunar_month_from_new_moon(sky) = f.month
      [] f.fn = "solar_span" ->
            /\ SolarIndex(sky.s_lon) = f.month
            /\ \/ f.mode = "star" /\ StarOf(sky.m_lon) = f.target
               \/ f.mode = "tithi" /\ TithiOf(sky.m_lon, sky.s_lon) = f.target
      [] f.fn = "lunar_star" ->
            /\ get_lunar_month_from_new_moon(sky) = f.month
            /\ StarOf(sky.m_lon) = f.target
      [] f.fn = "solar_day" -> SolarIndex(sky.s_lon) = f.month
      [] f.fn = "greg_star" -> StarOf(sky.m_lon) = f.target
      [] f.fn = "greg_tithi" -> TithiOf(sky.m_lon, sky.s_lon) = f.target
      [] OTHER -> FALSE

\* The frame with the iteration counted and the day's answer recorded.
Observe(f, sky, inYear) ==
    [f EXCEPT !.i = f.i + 1,
              !.seenAll = IF f.seenAll = -1 /\ Matches(f, sky) THEN f.i ELSE f.seenAll,
              !.seenInYear = IF f.seenInYear = -1 /\ inYear /\ Matches(f, sky)
                             THEN f.i ELSE f.seenInYear]

\* Variant: the loop runs one iteration past its window.
NextDay_onemore(g, window, after) ==
    IF g.i = window + 1 THEN Return(g, after) ELSE [g EXCEPT !.cur = g.cur + 1]

\* The loop goes on to its next day, or ends with what follows the loop.
NextDay(g, window, after) ==
    IF g.i = window THEN Return(g, after) ELSE [g EXCEPT !.cur = g.cur + 1]

\* Variant: the lunar month of the day is not verified.
LunarTithiStep_nomonth(f, sky) ==
    LET inYear == InYear(f.cur, f.year)
        g == Observe(f, sky, inYear)
    IN  IF ~inYear THEN NextDay(g, LunarWindow, Sentinel("Not Found"))
        ELSE IF ~AstronomyAvailable THEN Return(g, Raised)
        ELSE IF TithiOf(sky.m_lon, sky.s_lon) = f.target
        THEN Return(g, OrdFormat(f.cur))
        ELSE NextDay(g, LunarWindow, Sentinel("Not Found"))

\* calculate_accurate_lunar_date: for i in range(80)
LunarTithiStep(f, sky) ==
    LET inYear == InYear(f.cur, f.year)
        g == Observe(f, sky, inYear)
    IN  IF ~inYear THEN NextDay(g, LunarWindow, Sentinel("Not Found"))
        ELSE IF ~AstronomyAvailable THEN Return(g, Raised)
        ELSE IF TithiOf(sky.m_lon, sky.s_lon) = f.target
                /\ get_lunar_month_from_new_moon(sky) = f.month
        THEN Return(g, OrdFormat(f.cur))
        ELSE NextDay(g, LunarWindow, Sentinel("Not Found"))

\* calculate_solar_span_event: for _ in range(50)
SolarSpanStep(f, sky) ==
    LET inYear == InYear(f.cur, f.year)
        g == Observe(f, sky, inYear)
    IN  IF ~inYear THEN NextDay(g, SolarSpanWindow, Sentinel("Check Manual"))
        ELSE IF ~AstronomyAvailable THEN Return(g, Raised)
        ELSE IF /\ SolarIndex(sky.s_lon) = f.month
                /\ \/ f.mode = "star" /\ StarOf(sky.m_lon) = f.target
                   \/ f.mode = "tithi" /\ TithiOf(sky.m_lon, sky.s_lon) = f.target
        THEN Return(g, OrdFormat(f.cur))
        ELSE NextDay(g, SolarSpanWindow, Sentinel("Check Manual"))

\* get_lunar_month_star_date: for i in range(60)
LunarStarStep(f, sky) ==
    LET inYear == InYear(f.cur, f.year)
        g == Observe(f, sky, inYear)
    IN  IF ~inYear THEN NextDay(g, LunarStarWindow, NoneVal)
        ELSE IF ~AstronomyAvailable THEN Return(g, Raised)
        ELSE IF get_lunar_month_from_new_moon(sky) # f.month
        THEN NextDay(g, LunarStarWindow, NoneVal)
        ELSE IF StarOf(sky.m_lon) = f.target
        THEN Return(g, OrdFormat(f.cur))
        ELSE NextDay(g, LunarStarWindow, NoneVal)

\* The largest ordinal datetime.date holds: 31 December 9999.
MaxOrdinal == DaysBeforeYear(10000)

\* get_solar_day_date: for _ in range(45); no test of the year.
SolarDayStep(f, sky) ==
    LET g == Observe(f, sky, TRUE)
    IN  IF ~AstronomyAvailable THEN Return(g, Raised)
        ELSE IF SolarIndex(sky.s_lon) = f.month
        THEN IF f.cur + (f.n - 1) > MaxOrdinal
             THEN Return(g, Raised)                        \* OverflowError
             ELSE Return(g, OrdFormat(f.cur + (f.n - 1)))
        ELSE NextDay(g, SolarDayWindow, NoneVal)

\* get_gregorian_month_star_date / get_gregorian_month_tithi_date:
\* for day in range(1, 32), left by break at the first invalid day.
CivilMonthStep(f, sky) ==
    IF ~ValidDate(f.year, f.month, f.cur)
    THEN Return([f EXCEPT !.i = f.i + 1], NoneVal)
    ELSE LET g == Observe(f, sky, TRUE)
         IN  IF ~AstronomyAvailable THEN Return(g, Raised)
             ELSE IF \/ f.fn = "greg_star" /\ StarOf(sky.m_lon) = f.target
                     \/ f.fn = "greg_tithi" /\ TithiOf(sky.m_lon, sky.s_lon) = f.target
             THEN Return(g, strftime(f.year, f.month, f.cur))
             ELSE NextDay(g, CivilScanDays, NoneVal)

SearchStep(f, sky) ==
    CASE f.fn = "lunar_tithi" -> LunarTithiStep(f, sky)
      [] f.fn = "solar_span"  -> SolarSpanStep(f, sky)
      [] f.fn = "lunar_star"  -> LunarStarStep(f, sky)
      [] f.fn = "solar_day"   -> SolarDayStep(f, sky)
      [] OTHER                -> CivilMonthStep(f, sky)

\* The whole call under an ephemeris that answers sky on every day.
RECURSIVE RunSearch(_, _)
RunSearch(f, sky) == IF f.pc = "done" THEN f ELSE RunSearch(SearchStep(f, sky), sky)

----------------------------------------------------------------------------
(* The functions app.py calls with a row's text.  Each is given as the      *)
(* frame its call is in once the guard and the parsing are done: a frame    *)
(* that already returned, or the frame of the search loop it enters.        *)

Returned(fn, r) == Return(NewFrame(fn, <<>>, 0, 0, 0, 0, "", 0), r)

\* kannada_string.replace("-", " ").split()
DashWords(s) == Words(ReplaceBySpace(s, "-"))

\* kannada_string.replace("-", " ").replace(".", " ").split()
DashDotWords(s) == Words(ReplaceBySpace(ReplaceBySpace(s, "-"), "."))

get_lunar_date_enter(kannada_string, year) ==
    LET parts == DashDotWords(kannada_string)
        f_month == LastWord(LUNAR_MONTHS, parts, 0)
        f_paksha == LastWord(PAKSHA, parts, "")
        f_tithi == LastWord(TITHIS, parts, 0)
    IN  IF ~PLANETS THEN Returned("get_lunar_date", Sentinel("Error"))
        ELSE IF f_month # 0 /\ f_paksha # "" /\ f_tithi # 0
        THEN calculate_accurate_lunar_date_enter(f_month, f_paksha, f_tithi, year, "sunrise")
        ELSE Returned("get_lunar_date", NoneVal)

get_solar_date_enter(kannada_string, year) ==
    LET parts == DashWords(kannada_string)
        f_month == LastWord(SOLAR_MONTHS, parts, 0)
        f_star == LastWord(NAKSHATRAS, parts, 0)
    IN  IF ~PLANETS THEN Returned("get_solar_date", Sentinel("Error"))
        ELSE IF f_month # 0 /\ f_star # 0
        THEN calculate_solar_span_event_enter(year, f_month, "star", f_star)
        ELSE Returned("get_solar_date", NoneVal)

get_solar_month_tithi_date_enter(kannada_string, year) ==
    LET parts == DashDotWords(kannada_string)
        f_s_month == LastWord(SOLAR_MONTHS, parts, 0)
        f_paksha == LastWord(PAKSHA, parts, "")
        f_tithi == LastWord(TITHIS, parts, 0)
        target == IF f_paksha = "Krishna" THEN f_tithi + 15 ELSE f_tithi
    IN  IF ~PLANETS THEN Returned("get_solar_month_tithi_date", Sentinel("Error"))
        ELSE IF f_s_month # 0 /\ f_paksha # "" /\ f_tithi # 0
        THEN calculate_solar_span_event_enter(year, f_s_month, "tithi", target)
        ELSE Returned("get_solar_month_tithi_date", NoneVal)

get_lunar_month_star_date_enter(kannada_string, year) ==
    LET parts == DashWords(kannada_string)
        f_l_month == LastWord(LUNAR_MONTHS, parts, 0)
        f_star == LastWord(NAKSHATRAS, parts, 0)
    IN  IF ~PLANETS THEN Returned("get_lunar_month_star_date", Sentinel("Error"))
        ELSE IF f_l_month # 0 /\ f_star # 0
        THEN lunar_month_star_enter(f_l_month, f_star, year)
        ELSE Returned("get_lunar_month_star_date", NoneVal)

get_solar_day_date_enter(kannada_string, year) ==
    LET parts == DashWords(kannada_string)
        f_month == LastWord(SOLAR_MONTHS, parts, 0)
        matches == FirstDigits(kannada_string)
        day_num == IF matches = <<>> THEN 0 ELSE IntOf(matches)
    IN  IF ~PLANETS THEN Returned("get_solar_day_date", Sentinel("Error"))
        ELSE IF f_month # 0 /\ day_num # 0
        THEN solar_day_enter(f_month, day_num, year)
        ELSE Returned("get_solar_day_date", NoneVal)

get_gregorian_month_star_date_enter(kannada_string, year) ==
    LET parts == DashWords(kannada_string)
        g_month == LastWord(KANNADA_MONTHS, parts, 0)
        f_star == LastWord(NAKSHATRAS, parts, 0)
    IN  IF ~PLANETS THEN Returned("get_gregorian_month_star_date", Sentinel("Error"))
        ELSE IF g_month # 0 /\ f_star # 0
        THEN gregorian_month_star_enter(g_month, f_star, year)
        ELSE Returned("get_gregorian_month_star_date", NoneVal)

get_gregorian_month_tithi_date_enter(kannada_string, year) ==
    LET parts == DashDotWords(kannada_string)
        g_month == LastWord(KANNADA_MONTHS, parts, 0)
        f_paksha == LastWord(PAKSHA, parts, "")
        f_tithi == LastWord(TITHIS, parts, 0)
        target_tithi == IF f_paksha = "Krishna" THEN f_tithi + 15 ELSE f_tithi
    IN  IF ~PLANETS THEN Returned("get_gregorian_month_tithi_date", Sentinel("Error"))
        ELSE IF g_month # 0 /\ f_paksha # "" /\ f_tithi # 0
        THEN gregorian_month_tithi_enter(g_month, target_tithi, year)
        ELSE Returned("get_gregorian_month_tithi_date", NoneVal)

----------------------------------------------------------------------------
(* The festival manager: load_festivals and get_festival_date.              *)

\* A rule of festivals.json.  star = 0: the rule has no "star" key;
\* time = "": it has no "time" key.
Rule(type, month, paksha, tithi, star, time) ==
    [type |-> type, month |-> month, paksha |-> paksha, tithi |-> tithi,
     star |-> star, time |-> time]

\* The file festivals/festivals.json: readable with a table in it, absent,
\* or not parseable.
StoreFile(state, table) == [state |-> state, table |-> table]

NoCache == [isNone |-> TRUE, rules |-> <<>>]

Cached(table) == [isNone |-> FALSE, rules |-> table]

\* Variant: the cache is tested for being non-empty, not for being None.
load_festivals_truthy(cache, file) ==
    IF cache.rules # <<>> THEN cache
    ELSE IF file.state = "ok" THEN Cached(file.table)
    ELSE Cached(<<>>)

\* The value load_festivals returns and leaves in _FESTIVALS_CACHE.
load_festivals(cache, file) ==
    IF ~cache.isNone THEN cache
    ELSE IF file.state = "ok" THEN Cached(file.table)
    ELSE Cached(<<>>)

\* Whether that call of load_festivals opens the file.
load_festivals_reads(cache, file) == cache.isNone /\ file.state # "missing"

\* list(SOLAR_MONTHS.keys())[list(SOLAR_MONTHS.values()).index(month)]
SolarMonthName(month) ==
    SOLAR_MONTHS[CHOOSE i \in 1..Len(SOLAR_MONTHS) :
                     /\ SOLAR_MONTHS[i].val = month
                     /\ \A h \in 1..(i - 1) : SOLAR_MONTHS[h].val # month].key

get_festival_date_enter(text, year, rules) ==
    LET kannada_string == Strip(text)
        rule == Get(rules, kannada_string)
    IN  IF ~HasKey(rules, kannada_string)
        THEN Returned("get_festival_date", NoneVal)
        ELSE IF rule.type = "lunar"
        THEN calculate_accurate_lunar_date_enter(
                 rule.month, rule.paksha, rule.tithi, year,
                 IF rule.time = "" THEN "sunrise" ELSE rule.time)
        ELSE IF rule.type = "solar_start"
        THEN IF \E i \in 1..Len(SOLAR_MONTHS) : SOLAR_MONTHS[i].val = rule.month
             THEN get_solar_day_date_enter(
                      SolarMonthName(rule.month) \o <<" ", "1">>, year)
             ELSE Returned("get_festival_date", Raised)      \* ValueError of index()
        ELSE IF rule.type = "solar" /\ rule.star # 0
        THEN calculate_solar_span_event_enter(year, rule.month, "star", rule.star)
        ELSE Returned("get_festival_date", NoneVal)

----------------------------------------------------------------------------
(* SpecWeekday: one call of calculate_nth_weekday, one iteration a step,    *)
(* or one call of get_english_date.                                         *)

MaxOrdinalArg == 6

EnglishTexts == {
    <<"Marc", "Vir", "-", "1", "5">>,
    <<" ", "February", "-", "2", "9", " ">>,
    <<"February", "-", "3", "0">>,
    <<"April", "-", "x">>,
    <<"Epril", "-", "7", "-", "8">>,
    <<"Magha", "-", "5">>,
    <<"November", " ", "First", " ", "Sunday">>,
    <<"December", " ", "Last", " ", "Friday">>,
    <<"February", " ", "Fifth", " ", "Monday">>,
    <<"June", " ", "Tuesday">>,
    <<"Second", " ", "Saturday">>,
    <<"1", "5">>,
    <<"Shravana", ".", "Shukla", ".", "Panchami">> }

EnglishCall(text, year) ==
    [NewFrame("get_english_date", text, year, 0, 0, 0, "", 0) EXCEPT !.pc = "call"]

Idle ==
    /\ FESTIVALS_CACHE = NoCache
    /\ store = StoreFile("missing", <<>>)
    /\ storeReads = 0
    /\ target_year = 0
    /\ rows = <<>>
    /\ last_seen_month = <<>>
    /\ results = <<>>
    /\ pc = "idle"
    /\ fault = ""

InitWeekday ==
    /\ Idle
    /\ PLANETS \in BOOLEAN
    /\ \/ \E year \in Years, month \in 1..12, w \in 0..6, n \in (-1)..MaxOrdinalArg :
              frame = NthWeekdayEnter(year, month, w, n)
       \/ \E text \in EnglishTexts, year \in SearchYears :
              frame = EnglishCall(text, year)

BatchUnchanged ==
    UNCHANGED <<PLANETS, FESTIVALS_CACHE, store, storeReads, target_year, rows,
                last_seen_month, results, pc, fault>>

\* One iteration of calculate_nth_weekday's loop.
NthWeekdayIterate ==
    /\ frame.fn = "nth_weekday"
    /\ frame.pc = "loop"
    /\ frame' = NthWeekdayStep(frame)
    /\ BatchUnchanged

\* get_english_date from call to return.
EnglishDateCall ==
    /\ frame.fn = "get_english_date"
    /\ frame.pc = "call"
    /\ frame' = Return(frame, get_english_date(frame.text, frame.year))
    /\ BatchUnchanged

NextWeekday == NthWeekdayIterate \/ EnglishDateCall

SpecWeekday == InitWeekday /\ [][NextWeekday]_vars

----------------------------------------------------------------------------
(* SpecSearch: one call of a function of calculations.py that searches the  *)
(* sky, from the call to the return, one loop iteration a step.  The        *)
(* ephemeris answers every day with any sky of Sky.  The calls of           *)
(* SpecWeekday are part of it, for the years of SearchYears.                *)

SearchFunctions == {
    "get_lunar_date", "get_solar_date", "get_solar_month_tithi_date",
    "get_lunar_month_star_date", "get_solar_day_date",
    "get_gregorian_month_star_date", "get_gregorian_month_tithi_date" }

MonthWord(dict, i) == dict[i].key

SearchTexts ==
    {   <<"Shravana", ".", "Shukla", ".", "Panchami">>,
        <<"Magha", " ", "Bahula", " ", "Panchami">>,
        <<"Pushya", "-", "Krishna", "-", "Amavasya">>,
        <<"Magha", " ", "Panchami">>,
        <<"Magha", " ", "Amavasya">>,
        <<"Simha", " ", "Purnima">>,
        <<"Simha", " ", "Masa", " ", "Shravanam", " ", "Nakshatra">>,
        <<"Makara", "-", "Swati">>,
        <<"Simha", " ", "Shukla", " ", "Panchami">>,
        <<"Makara", ".", "Krishna", ".", "Panchami">>,
        <<"Makara", " ", "Masa", " ", "3", "2">>,
        <<"Makara", " ", "9", "9", "9", "9", "9", "9", "9">>,
        <<"Tula", " ", "Masa", " ", "0">>,
        <<"Dhanu", " ", "Masa", " ", "2", "0">>,
        <<"Epril", " ", "Swati">>,
        <<"February", ".", "Shuddha", ".", "Trayodashi">>,
        <<"xyz">> }
    \cup { MonthWord(LUNAR_MONTHS, i) \o <<" ", "Masa", " ", "Swati">> : i \in 1..12 }
    \cup { MonthWord(SOLAR_MONTHS, i) \o <<" ", "Masa", " ", "1">> : i \in 1..12 }

FestivalName == <<"Habba">>

RuleSamples ==
    { Rule("lunar", m, p, t, 0, time) :
          m \in 1..12, p \in {"Shukla", "Krishna"}, t \in {5, 30},
          time \in {"", "midnight"} }
    \cup { Rule("solar_start", m, "", 0, 0, "") : m \in 1..12 }
    \cup { Rule("solar", m, "", 0, star, "") : m \in 1..12, star \in {0, 22} }
    \cup { Rule(type, 5, "Shukla", 15, 22, "") : type \in {"lunar_star", "lunar_weekday"} }

SearchCall(fn, text, year) ==
    [NewFrame(fn, text, year, 0, 0, 0, "", 0) EXCEPT !.pc = "call"]

InitSearch ==
    /\ FESTIVALS_CACHE = NoCache
    /\ storeReads = 0
    /\ target_year = 0
    /\ rows = <<>>
    /\ last_seen_month = <<>>
    /\ results = <<>>
    /\ pc = "idle"
    /\ fault = ""
    /\ PLANETS \in BOOLEAN
    /\ \/ /\ store = StoreFile("missing", <<>>)
          /\ \E fn \in SearchFunctions, text \in SearchTexts, year \in SearchYears :
                 frame = SearchCall(fn, text, year)
       \/ /\ store = StoreFile("missing", <<>>)
          /\ \E text \in EnglishTexts, year \in SearchYears :
                 frame = EnglishCall(text, year)
       \/ /\ store = StoreFile("missing", <<>>)
          /\ \E year \in SearchYears, month \in 1..12, w \in 0..6,
                n \in (-1)..MaxOrdinalArg :
                 frame = NthWeekdayEnter(year, month, w, n)
       \/ /\ \E rule \in RuleSamples : store = StoreFile("ok", <<Item(FestivalName, rule)>>)
          /\ \E text \in {FestivalName, <<"xyz">>}, year \in SearchYears :
                 frame = SearchCall("get_festival_date", text, year)

\* The call up to the loop: the guard on PLANETS and the parsing of the text.
Enter(f) ==
    CASE f.fn = "get_lunar_date" -> get_lunar_date_enter(f.text, f.year)
      [] f.fn = "get_solar_date" -> get_solar_date_enter(f.text, f.year)
      [] f.fn = "get_solar_month_tithi_date" ->
            get_solar_month_tithi_date_enter(f.text, f.year)
      [] f.fn = "get_lunar_month_star_date" ->
            get_lunar_month_star_date_enter(f.text, f.year)
      [] f.fn = "get_solar_day_date" -> get_solar_day_date_enter(f.text, f.year)
      [] f.fn = "get_gregorian_month_star_date" ->
            get_gregorian_month_star_date_enter(f.text, f.year)
      [] f.fn = "get_gregorian_month_tithi_date" ->
            get_gregorian_month_tithi_date_enter(f.text, f.year)

FrameUnchanged ==
    UNCHANGED <<PLANETS, target_year, rows, last_seen_month, results, pc, fault>>

\* A search function is called with a text.
SearchEnter ==
    /\ frame.pc = "call"
    /\ frame.fn \in SearchFunctions
    /\ frame' = Enter(frame)
    /\ UNCHANGED <<FESTIVALS_CACHE, store, storeReads>>
    /\ FrameUnchanged

\* get_festival_date is called: it loads the rules and enters the rule's search.
FestivalEnter ==
    /\ frame.pc = "call"
    /\ frame.fn = "get_festival_date"
    /\ FESTIVALS_CACHE' = load_festivals(FESTIVALS_CACHE, store)
    /\ storeReads' = IF load_festivals_reads(FESTIVALS_CACHE, store)
                     THEN storeReads + 1 ELSE storeReads
    /\ frame' = get_festival_date_enter(frame.text, frame.year, FESTIVALS_CACHE'.rules)
    /\ UNCHANGED store
    /\ FrameUnchanged

\* One iteration of the search loop the call is in.
SearchIterate ==
    /\ frame.pc = "loop"
    /\ frame.fn \in {"lunar_tithi", "solar_span", "lunar_star", "solar_day",
                     "greg_star", "greg_tithi"}
    /\ \E sky \in Sky : frame' = SearchStep(frame, sky)
    /\ UNCHANGED <<FESTIVALS_CACHE, store, storeReads>>
    /\ FrameUnchanged

NextSearch ==
    SearchEnter \/ FestivalEnter \/ SearchIterate \/ EnglishDateCall \/ NthWeekdayIterate

SpecSearch == InitSearch /\ [][NextSearch]_vars

----------------------------------------------------------------------------
(* The row loop of app.py: fill-down, then the chain of strategies.         *)

DefaultYear == 2025

\* The if/else chain of the loop body, outermost first: the function called,
\* the note given to its result, and the substring that makes app.py turn a
\* truthy result down ("" when it turns none down).
Strategy(fn, note, reject) == [fn |-> fn, note |-> note, reject |-> reject]

DispatchChain == <<
    Strategy("get_english_date", "English/Pattern", ""),
    Strategy("get_festival_date", "Festival", ""),
    Strategy("get_lunar_date", "Lunar Tithi", "Not Found"),
    Strategy("get_solar_date", "Solar Star", "Check"),
    Strategy("get_solar_month_tithi_date", "Solar + Tithi", "Check"),
    Strategy("get_lunar_month_star_date", "Lunar + Star", ""),
    Strategy("get_solar_day_date", "Solar Day No.", "") >>

\* if res: / if res and "..." not in res:
Accepts(st, res) == Truthy(res) /\ (st.reject = "" \/ ~StrContains(res, st.reject))

\* What the call of the strategy returns for the row, the ephemeris answering
\* sky on every day.  The festival lookup is given the original text, every
\* other strategy the text after fill-down.
CallStrategy(st, original_text, final_text, year, sky, rules) ==
    IF st.fn = "get_english_date"
    THEN get_english_date(final_text, year)
    ELSE IF st.fn = "get_festival_date"
    THEN RunSearch(get_festival_date_enter(original_text, year, rules), sky).res
    ELSE RunSearch(Enter(SearchCall(st.fn, final_text, year)), sky).res

\* The chain from its k-th strategy on; tried lists the functions called so far.
RECURSIVE Dispatch(_, _, _, _, _, _, _)
Dispatch(k, tried, original_text, final_text, year, sky, rules) ==
    IF k > Len(DispatchChain)
    THEN [calc_date |-> Sentinel("Manual Check"), note |-> "Unknown Format",
          tried |-> tried, raised |-> ""]
    ELSE LET st == DispatchChain[k]
             res == CallStrategy(st, original_text, final_text, year, sky, rules)
             now == Append(tried, st.fn)
         IN  IF res = Raised
             THEN [calc_date |-> Raised, note |-> "", tried |-> now, raised |-> st.fn]
             ELSE IF Accepts(st, res)
             THEN [calc_date |-> res, note |-> st.note, tried |-> now, raised |-> ""]
             ELSE Dispatch(k + 1, now, original_text, final_text, year, sky, rules)

\* for km in KANNADA_MONTHS: if km in original_text: ... break
MonthTokenIn(original_text) == FirstIn(KANNADA_MONTHS, original_text).key

\* Variant: every row without a month token is rewritten, not only a number.
FillDown_anyrow(original_text, month_found, seen) ==
    IF ~month_found /\ seen # <<>>
    THEN seen \o <<"-">> \o original_text
    ELSE original_text

\* The text handed to the strategies; seen is last_seen_month after the row's
\* own month token, if it has one, was stored in it.
FillDown(original_text, month_found, seen) ==
    IF ~month_found /\ IsDigitStr(original_text) /\ seen # <<>>
    THEN seen \o <<"-">> \o original_text
    ELSE original_text

\* The button "Calculate Dates" is pressed: the loop starts with empty results.
Calculate ==
    /\ pc \in {"idle", "done"}
    /\ pc' = "loop"
    /\ target_year' = DefaultYear
    /\ rows' = <<>>
    /\ results' = <<>>
    /\ last_seen_month' = <<>>
    /\ UNCHANGED <<PLANETS, FESTIVALS_CACHE, store, storeReads, fault, frame>>

\* Variant: a row without a month token clears the memory.
SeenAfter_reset(token, seen) == token

\* last_seen_month after the row's own month token, if it has one, was stored.
SeenAfter(token, seen) == IF token # <<>> THEN token ELSE seen

\* One pass of the loop body for the next row of the sheet.  An exception of
\* a strategy leaves the loop: nothing catches it.
ProcessRow(text, sky) ==
    LET original_text == Strip(text)
        token == MonthTokenIn(original_text)
        seen == SeenAfter(token, last_seen_month)
        final_text == FillDown(original_text, token # <<>>, seen)
        loaded == load_festivals(FESTIVALS_CACHE, store)
    IN  \E out \in {Dispatch(1, <<>>, original_text, final_text, target_year, sky,
                             loaded.rules)} :
          LET lookedUp == \E i \in 1..Len(out.tried) : out.tried[i] = "get_festival_date"
          IN  /\ pc = "loop"
              /\ rows' = Append(rows, text)
              /\ last_seen_month' = seen
              /\ FESTIVALS_CACHE' = IF lookedUp THEN loaded ELSE FESTIVALS_CACHE
              /\ storeReads' = IF lookedUp /\ load_festivals_reads(FESTIVALS_CACHE, store)
                               THEN storeReads + 1 ELSE storeReads
              /\ IF out.raised # ""
                 THEN /\ pc' = "crashed"
                      /\ fault' = out.raised
                      /\ UNCHANGED results
                 ELSE /\ results' = Append(results,
                             [original |-> original_text, processed |-> final_text,
                              calc_date |-> out.calc_date, note |-> out.note,
                              tried |-> out.tried])
                      /\ UNCHANGED <<pc, fault>>
              /\ UNCHANGED <<PLANETS, store, target_year, frame>>

\* The sheet has no more rows: the results are shown.
Finish ==
    /\ pc = "loop"
    /\ pc' = "done"
    /\ UNCHANGED <<PLANETS, FESTIVALS_CACHE, store, storeReads, target_year, rows,
                   last_seen_month, results, fault, frame>>

\* The rules of the festival file the batch runs with.
SampleFestivals == <<
    Item(<<"NagaPanchami">>, Rule("lunar", 5, "Shukla", 5, 0, "")),
    Item(<<"Janmashtami">>, Rule("lunar", 5, "Krishna", 8, 0, "midnight")),
    Item(<<"MakaraSankranti">>, Rule("solar_start", 10, "", 0, 0, "")),
    Item(<<"Onam">>, Rule("solar", 5, "", 0, 22, "")),
    Item(<<"Sankramana">>, Rule("solar", 4, "", 0, 0, "")),
    Item(<<"Varamahalakshmi">>, Rule("lunar_weekday", 5, "Shukla", 15, 0, "")) >>

Stores == { StoreFile("ok", SampleFestivals), StoreFile("missing", <<>>),
            StoreFile("corrupt", <<>>) }

InitBatch ==
    /\ PLANETS \in BOOLEAN
    /\ FESTIVALS_CACHE = NoCache
    /\ store \in Stores
    /\ storeReads = 0
    /\ target_year = DefaultYear
    /\ rows = <<>>
    /\ last_seen_month = <<>>
    /\ results = <<>>
    /\ pc = "idle"
    /\ fault = ""
    /\ frame = IdleFrame

\* Spec: sheets of up to MaxRows rows.
BatchTexts == {
    <<"Marc", "Vir", "-", "1", "5">>,
    <<"1", "5">>,
    <<"Last", " ", "Friday">>,
    <<"Shravana", ".", "Shukla", ".", "Panchami">>,
    <<"NagaPanchami">> }

BatchSky == { SkyAt(4, 5, 3), SkyAt(9, 13, 9) }

NextRow == \E text \in BatchTexts, sky \in BatchSky :
               Len(rows) < MaxRows /\ ProcessRow(text, sky)

Init == InitBatch

Next == Calculate \/ NextRow \/ Finish

Spec == Init /\ [][Next]_vars

\* SpecDispatch: sheets of one row, of every shape of text, under every sky.
DispatchTexts == BatchTexts \cup {
    <<"February", "-", "3", "0">>,
    <<"November", " ", "First", " ", "Sunday">>,
    <<"Simha", " ", "Masa", " ", "Shravanam", " ", "Nakshatra">>,
    <<"Simha", " ", "Shukla", " ", "Panchami">>,
    <<"Shravana", " ", "Masa", " ", "Swati">>,
    <<"Makara", " ", "Masa", " ", "2">>,
    <<"Epril", " ", "Swati">>,
    <<"February", ".", "Shuddha", ".", "Trayodashi">>,
    <<"MakaraSankranti">>,
    <<"Onam">>,
    <<"Varamahalakshmi">>,
    <<"xyz">> }

OneRow == \E text \in DispatchTexts, sky \in Sky :
              Len(rows) < 1 /\ ProcessRow(text, sky)

NextDispatch == Calculate \/ OneRow \/ Finish

SpecDispatch == InitBatch /\ [][NextDispatch]_vars

----------------------------------------------------------------------------
(* Properties of the dispatcher (SpecDispatch).                             *)

ResultRows == 1..Len(results)

\* C1: a strategy's result is taken as the row's Calculated Date, under that
\* strategy's note, only when it is a concrete date; None, "Not Found",
\* "Check Manual" and "Error" are never emitted under a strategy's note.
C1_OnlyDatesAccepted ==
    \A i \in ResultRows :
        results[i].note # "Unknown Format" => IsDate(results[i].calc_date)

\* The order of the nine strategies that the design document gives.
DocumentedOrder == <<
    "get_english_date", "get_festival_date", "get_lunar_date", "get_solar_date",
    "get_solar_month_tithi_date", "get_lunar_month_star_date",
    "get_gregorian_month_star_date", "get_gregorian_month_tithi_date",
    "get_solar_day_date" >>

NoteOf(fn) ==
    IF \E k \in 1..Len(DispatchChain) : DispatchChain[k].fn = fn
    THEN DispatchChain[CHOOSE k \in 1..Len(DispatchChain) : DispatchChain[k].fn = fn].note
    ELSE ""

\* C2: the strategies a row goes through are an initial part of the nine in
\* the documented order, a row that no strategy resolves went through all
\* nine, and the row's note is that of the last strategy it went through.
C2_NineStrategiesInOrder ==
    \A i \in ResultRows :
        LET tried == results[i].tried
        IN  /\ Len(tried) <= Len(DocumentedOrder)
            /\ tried = SubSeq(DocumentedOrder, 1, Len(tried))
            /\ IF results[i].note = "Unknown Format"
               THEN tried = DocumentedOrder
               ELSE results[i].note = NoteOf(tried[Len(tried)])

----------------------------------------------------------------------------
(* Properties of the functions of calculations.py (SpecSearch, SpecWeekday).*)

AstronomyFrames == {"lunar_tithi", "solar_span", "lunar_star", "solar_day",
                    "greg_star", "greg_tithi", "get_festival_date"}
                       \cup SearchFunctions

\* C3: every search and parse function returns a value or a sentinel,
\* whatever the text, the year, the festival rule and the state of the
\* ephemeris: no call ends with an exception.
C3_NoUnhandledFault == frame.pc = "done" => frame.res # Raised

\* C5: with the ephemeris not loaded, get_english_date returns what it
\* returns with the ephemeris loaded, and no function that needs the
\* ephemeris returns a concrete date.
C5_EnglishUnaffected ==
    (~PLANETS /\ frame.pc = "done") =>
        /\ frame.fn = "get_english_date" =>
               frame.res = english_date_under(TRUE, frame.text, frame.year)
        /\ frame.fn \in AstronomyFrames => ~IsDate(frame.res)

C5_Witness ==
    /\ ~PLANETS
    /\ frame.pc = "done"
    /\ frame.fn = "get_english_date"
    /\ IsDate(frame.res)

\* The days of the month that fall on the weekday.
DaysOn(year, month, w) ==
    {d \in 1..DaysInMonth(year, month) : Weekday(year, month, d) = w}

\* C6: calculate_nth_weekday returns the earliest day of the month on the
\* weekday for n = 1, the latest for n <= 0, the n-th counted from day 1 for
\* n > 1, and None when the month has fewer than n; a returned day lies in
\* 1..daysInMonth of the month asked for.
C6_NthWeekday ==
    (frame.fn = "nth_weekday" /\ frame.pc = "done") =>
        LET S == DaysOn(frame.year, frame.month, frame.target)
            r == frame.res
            on(d) == strftime(frame.year, frame.month, d)
        IN  /\ frame.n = 1 => r = on(CHOOSE d \in S : \A e \in S : d <= e)
            /\ frame.n <= 0 => r = on(CHOOSE d \in S : \A e \in S : e <= d)
            /\ (frame.n > 1 /\ frame.n <= Cardinality(S)) =>
                   r = on(CHOOSE d \in S : Cardinality({e \in S : e <= d}) = frame.n)
            /\ frame.n > Cardinality(S) => r = NoneVal
            /\ IsDate(r) =>
                   /\ r.y = frame.year
                   /\ r.m = frame.month
                   /\ r.d \in 1..DaysInMonth(frame.year, frame.month)

\* The fifth Thursday of February in a leap year is the 29th; the last
\* weekday of a December is found as well.
C6_Witness ==
    /\ frame.fn = "nth_weekday"
    /\ frame.pc = "done"
    /\ \/ IsLeap(frame.year) /\ frame.month = 2 /\ frame.n = 5 /\ frame.res.d = 29
       \/ frame.month = 12 /\ frame.n <= 0 /\ frame.res.d = 31

LunarDone == frame.fn = "lunar_tithi" /\ frame.pc = "done" /\ frame.res # Raised

NotFound == Sentinel("Not Found")

IterationBound(fn) ==
    CASE fn = "lunar_tithi" -> LunarWindow
      [] fn = "solar_span"  -> SolarSpanWindow
      [] fn = "lunar_star"  -> LunarStarWindow
      [] fn = "solar_day"   -> SolarDayWindow
      [] fn = "nth_weekday" -> WeekdayScanDays
      [] OTHER              -> CivilScanDays

OnExhaustion(fn) ==
    CASE fn = "lunar_tithi" -> NotFound
      [] fn = "solar_span"  -> Sentinel("Check Manual")
      [] OTHER              -> NoneVal

LoopFrames == {"lunar_tithi", "solar_span", "lunar_star", "solar_day",
               "greg_star", "greg_tithi", "nth_weekday"}

\* C10: every search makes at most its fixed number of iterations (80, 50,
\* 60, 45, 31), is over once it has made them, and when it ends without a
\* date it returns its sentinel or None.
C10_BoundedSearch ==
    frame.fn \in LoopFrames =>
        /\ frame.i <= IterationBound(frame.fn)
        /\ frame.pc = "loop" => frame.i < IterationBound(frame.fn)
        /\ (frame.pc = "done" /\ ~IsDate(frame.res) /\ frame.res # Raised) =>
               frame.res = OnExhaustion(frame.fn)

\* The lunar search went through its whole window without a match.
C10_Witness ==
    /\ frame.fn = "lunar_tithi"
    /\ frame.pc = "done"
    /\ frame.i = LunarWindow
    /\ frame.res = NotFound

----------------------------------------------------------------------------
(* Properties of the row loop (Spec).                                       *)

\* The text of the i-th row as the loop reads it, and its civil month token.
Original(i) == Strip(rows[i])

CivilToken(i) == MonthTokenIn(Original(i))

\* The month token of the nearest row before the i-th that has one.
NearestMonth(i) ==
    LET before == {j \in 1..(i - 1) : CivilToken(j) # <<>>}
    IN  IF before = {} THEN <<>>
        ELSE CivilToken(CHOOSE j \in before : \A h \in before : h <= j)

\* C4: the batch gives one output row per input row, in order; a row no
\* strategy resolves to a date gets "Manual Check" / "Unknown Format"; and
\* no row stops the rows after it from being processed.
C4_OneOutputRowPerInputRow ==
    /\ pc # "crashed"
    /\ Len(results) = Len(rows)
    /\ \A i \in ResultRows :
           /\ results[i].original = Original(i)
           /\ ~IsDate(results[i].calc_date) =>
                  /\ results[i].calc_date = Sentinel("Manual Check")
                  /\ results[i].note = "Unknown Format"

\* C7: a row that is a bare number is rewritten to "{month}-{number}" with
\* the month token of the nearest preceding row that has one, rows without a
\* token in between not clearing it; with no such row it stays as it is; a
\* row with a month token is never rewritten.
C7_FillDown ==
    \A i \in ResultRows :
        LET o == Original(i)
            p == results[i].processed
        IN  /\ (IsDigitStr(o) /\ NearestMonth(i) # <<>>) =>
                   p = NearestMonth(i) \o <<"-">> \o o
            /\ (IsDigitStr(o) /\ NearestMonth(i) = <<>>) => p = o
            /\ CivilToken(i) # <<>> => p = o

\* A month row, a row with neither month nor number, then a number.
C7_Witness ==
    /\ Len(results) >= 3
    /\ CivilToken(1) # <<>>
    /\ CivilToken(2) = <<>> /\ ~IsDigitStr(Original(2))
    /\ IsDigitStr(Original(3))
    /\ results[3].processed = CivilToken(1) \o <<"-">> \o Original(3)

\* A month token of any of the three kinds, and the nearest one before row i.
AnyMonthToken(text) ==
    FirstIn(KANNADA_MONTHS \o LUNAR_MONTHS \o SOLAR_MONTHS, text).key

NearestAnyMonth(i) ==
    LET before == {j \in 1..(i - 1) : AnyMonthToken(Original(j)) # <<>>}
    IN  IF before = {} THEN <<>>
        ELSE AnyMonthToken(Original(CHOOSE j \in before : \A h \in before : h <= j))

IsWeekdayPattern(text) == FirstIn(WEEKDAYS, text).key # <<>>

\* C8 as stated: the month token last seen, lunar, solar or civil, is put in
\* front of a row without a month token that is a bare number or a
\* weekday/ordinal pattern.
C8_AnyMonthPrepended ==
    \A i \in ResultRows :
        LET o == Original(i)
            t == NearestAnyMonth(i)
            p == results[i].processed
        IN  (/\ AnyMonthToken(o) = <<>>
             /\ t # <<>>
             /\ IsDigitStr(o) \/ IsWeekdayPattern(o)) =>
                /\ Len(p) > Len(o)
                /\ SubSeq(p, 1, Len(t)) = t

\* C8 amended: the memory holds the civil month token last seen, lunar and
\* solar month names leaving it as it is, and only a bare number is
\* rewritten: a weekday/ordinal pattern without a month stays unchanged.
C8_CivilMonthNumbersOnly ==
    /\ last_seen_month = NearestMonth(Len(rows) + 1)
    /\ \A i \in ResultRows :
           ~IsDigitStr(Original(i)) => results[i].processed = Original(i)

\* A weekday pattern without a month, after a row with a civil month, stays.
C8_Witness ==
    \E i \in ResultRows, j \in ResultRows :
        /\ i < j
        /\ CivilToken(i) # <<>>
        /\ CivilToken(j) = <<>>
        /\ IsWeekdayPattern(Original(j))
        /\ results[j].processed = Original(j)

----------------------------------------------------------------------------
(* Properties of the festival manager (SpecSearch, SpecFestival).           *)

\* The target index the tithi-based searches look for.
TargetIndex(paksha, tithi) == IF paksha = "Krishna" THEN tithi + 15 ELSE tithi

\* What the design document has get_festival_date do with the rule found
\* under the name; g is the call once the rule's search has been entered.
SelectedByType(text, year, rules, g) ==
    LET name == Strip(text)
        rule == Get(rules, name)
    IN  IF ~HasKey(rules, name)
        THEN g.pc = "done" /\ g.res = NoneVal
        ELSE /\ rule.type = "lunar" =>
                    /\ g.fn = "lunar_tithi" /\ g.year = year
                    /\ g.month = rule.month
                    /\ g.target = TargetIndex(rule.paksha, rule.tithi)
                    /\ g.mode = (IF rule.time = "" THEN "sunrise" ELSE rule.time)
             /\ rule.type = "lunar_star" =>
                    /\ g.fn = "lunar_star" /\ g.year = year
                    /\ g.month = rule.month /\ g.target = rule.star
             /\ rule.type = "lunar_weekday" =>
                    /\ g.fn = "lunar_tithi" /\ g.year = year
                    /\ g.month = rule.month
             /\ rule.type = "solar_start" =>
                    \/ /\ g.fn = "solar_day" /\ g.year = year
                       /\ g.month = rule.month /\ g.n = 1
                    \/ ~PLANETS /\ g.pc = "done" /\ g.res = Sentinel("Error")
             /\ (rule.type = "solar" /\ rule.star # 0) =>
                    /\ g.fn = "solar_span" /\ g.year = year
                    /\ g.month = rule.month
                    /\ g.mode = "star" /\ g.target = rule.star

\* C11: get_festival_date selects the search from the type of the rule found
\* under the name: lunar the lunar-tithi search with the rule's month,
\* paksha, tithi and time, lunar_star the lunar-month star search,
\* lunar_weekday the search of the reference tithi date, solar_start the
\* solar day-number search with day number 1, solar with a star the
\* solar-span search in star mode; a name not in the table gives None.
C11_RuleTypeSelectsSearch ==
    [][(frame.pc = "call" /\ frame.fn = "get_festival_date") =>
           SelectedByType(frame.text, frame.year,
                          load_festivals(FESTIVALS_CACHE, store).rules, frame')]_vars

----------------------------------------------------------------------------
(* Properties of the tithi-based searches (SpecSearch).                     *)

TithiFunctions == {"get_lunar_date", "get_solar_month_tithi_date",
                   "get_gregorian_month_tithi_date"}

\* The call is in the loop of a search for a tithi.
InTithiSearch(g) ==
    /\ g.pc = "loop"
    /\ \/ g.fn \in {"lunar_tithi", "greg_tithi"}
       \/ g.fn = "solar_span" /\ g.mode = "tithi"

\* The month, paksha and tithi words of a text given to one of the functions.
MonthNamed(fn, parts) ==
    CASE fn = "get_lunar_date" -> LastWord(LUNAR_MONTHS, parts, 0)
      [] fn = "get_solar_month_tithi_date" -> LastWord(SOLAR_MONTHS, parts, 0)
      [] OTHER -> LastWord(KANNADA_MONTHS, parts, 0)

\* The paksha of a query: the one named, or the one tithi 15 or 30 implies.
PakshaOf(named, tithi) ==
    IF named # "" THEN named
    ELSE IF tithi = 15 THEN "Shukla"
    ELSE IF tithi = 30 THEN "Krishna"
    ELSE ""

\* The index of 1..30 that paksha and tithi stand for.
IndexOf(paksha, tithi) ==
    IF tithi = 30 THEN 30 ELSE TargetIndex(paksha, tithi)

\* C12: the target index a tithi-based search is started with lies in 1..30:
\* Shukla t is t, Krishna t is t + 15 for t in 1..15, tithi 30 is 30; and a
\* text that gives tithi 15 or 30 without a paksha is searched for with
\* paksha Shukla or Krishna, not rejected.
C12_TargetIndexInRange ==
    [][frame.pc = "call" =>
           /\ InTithiSearch(frame') => frame'.target \in 1..30
           /\ (frame.fn \in TithiFunctions /\ PLANETS) =>
                  LET parts == DashDotWords(frame.text)
                      month == MonthNamed(frame.fn, parts)
                      tithi == LastWord(TITHIS, parts, 0)
                      paksha == PakshaOf(LastWord(PAKSHA, parts, ""), tithi)
                  IN  (month # 0 /\ tithi # 0 /\ paksha # "") =>
                          /\ InTithiSearch(frame')
                          /\ frame'.target = IndexOf(paksha, tithi)]_vars

----------------------------------------------------------------------------
(* SpecFestival: a process that calls load_festivals and get_festival_date  *)
(* any number of times, with festivals.json edited, removed or damaged      *)
(* between the calls.                                                       *)

FestivalStores ==
    Stores \cup { StoreFile("ok", <<Item(FestivalName, rule)>>) :
                      rule \in { Rule("lunar", 5, "Shukla", 5, 0, ""),
                                 Rule("solar", 5, "", 0, 22, ""),
                                 Rule("lunar_star", 5, "", 0, 22, "") } }

FestivalTexts == {FestivalName, <<"NagaPanchami">>, <<"Onam">>, <<"xyz">>}

InitFestival ==
    /\ PLANETS \in BOOLEAN
    /\ FESTIVALS_CACHE = NoCache
    /\ store \in FestivalStores
    /\ storeReads = 0
    /\ target_year = 0
    /\ rows = <<>>
    /\ last_seen_month = <<>>
    /\ results = <<>>
    /\ pc = "idle"
    /\ fault = ""
    /\ frame = IdleFrame

\* load_festivals() is called; what it returns is the cache it leaves.
LoadFestivalsCall ==
    /\ FESTIVALS_CACHE' = load_festivals(FESTIVALS_CACHE, store)
    /\ storeReads' = IF load_festivals_reads(FESTIVALS_CACHE, store)
                     THEN storeReads + 1 ELSE storeReads
    /\ frame' = Returned("load_festivals", NoneVal)
    /\ UNCHANGED store
    /\ FrameUnchanged

\* get_festival_date(text, year) is called and runs to its return.
GetFestivalDateCall ==
    \E text \in FestivalTexts, year \in SearchYears, sky \in BatchSky :
        /\ FESTIVALS_CACHE' = load_festivals(FESTIVALS_CACHE, store)
        /\ storeReads' = IF load_festivals_reads(FESTIVALS_CACHE, store)
                         THEN storeReads + 1 ELSE storeReads
        /\ frame' = [RunSearch(get_festival_date_enter(text, year,
                                                       FESTIVALS_CACHE'.rules), sky)
                         EXCEPT !.fn = "get_festival_date", !.text = text]
        /\ UNCHANGED store
        /\ FrameUnchanged

\* Between two calls the file is replaced by another, removed or damaged.
StoreEdited ==
    /\ frame.pc # "idle"
    /\ \E file \in FestivalStores : file # store /\ store' = file
    /\ frame' = IdleFrame
    /\ UNCHANGED <<FESTIVALS_CACHE, storeReads>>
    /\ FrameUnchanged

NextFestival == LoadFestivalsCall \/ GetFestivalDateCall \/ StoreEdited

SpecFestival == InitFestival /\ [][NextFestival]_vars

\* C13: the festival file is read at most once in the life of the process;
\* once a call of load_festivals has completed, with the file read, found
\* missing or found unparseable, no later call of load_festivals or
\* get_festival_date reads the file or changes the cache.
C13_LoadedOnce ==
    /\ [](storeReads <= 1)
    /\ [][~FESTIVALS_CACHE.isNone =>
              /\ FESTIVALS_CACHE' = FESTIVALS_CACHE
              /\ storeReads' = storeReads]_vars

\* The file was read, then replaced by one with another table, and a later
\* lookup was answered from the table read first.
C13_Witness ==
    /\ storeReads = 1
    /\ store.state = "ok"
    /\ FESTIVALS_CACHE.rules # store.table
    /\ frame.fn = "get_festival_date"
    /\ frame.pc = "done"
    /\ HasKey(FESTIVALS_CACHE.rules, Strip(frame.text))
    /\ ~HasKey(store.table, Strip(frame.text))

----------------------------------------------------------------------------
(* The year of the dates the searches return (SpecSearch).                  *)

\* C14: every date a search returns for a requested year lies in that civil
\* year: the lunar-tithi, solar-span and lunar-month-star searches pass over
\* the days of their window outside the year, and the day the solar
\* day-number search returns, the transition day plus the day number less
\* one, lies in the year as well, for every solar month and day number.
C14_DatesInRequestedYear ==
    (frame.pc = "done" /\ IsDate(frame.res)) => frame.res.y = frame.year

====
